---- MODULE Spec2Model ----
(***************************************************************************)
(* Model of sphinxcontrib/mscgen.py: the Sphinx extension that renders     *)
(* mscgen diagrams by running the external renderer and splicing a         *)
(* reference to the written image into the HTML or LaTeX output.           *)
(*                                                                         *)
(* Python strings are sequences of tokens (Seq(STRING)); the bytes of a    *)
(* stream or a file are sequences of integers; Python's None is the value  *)
(* None below.  A visit of a diagram node runs up to the Popen call in one *)
(* step and, when a process was started, resumes at communicate() in a     *)
(* second step, so that a running renderer process is a visible state.     *)
(* An exception other than SkipNode leaves the visitor and ends the build. *)
(***************************************************************************)
EXTENDS Integers, Sequences, FiniteSets, TLC

VARIABLES builder, mscgen_js, imgpath, supported, cairosvg, negotiated,
          body, disk, writes, dirs, issued, procs, pc, cur, visits

vars == <<builder, mscgen_js, imgpath, supported, cairosvg, negotiated,
          body, disk, writes, dirs, issued, procs, pc, cur, visits>>

\* ---------------------------------------------------------------- bounds
MaxVisits == 2
MaxSupported == 3

\* ------------------------------------------------------- generic helpers
None == "None"

Range(s) == {s[i] : i \in DOMAIN s}

Last(s) == s[Len(s)]

\* t occurs in s as a contiguous run of tokens
Contains(s, t) ==
    \E i \in 0..(Len(s) - Len(t)) : SubSeq(s, i + 1, i + Len(t)) = t

RECURSIVE Flatten(_)
Flatten(ss) == IF ss = <<>> THEN <<>> ELSE Head(ss) \o Flatten(Tail(ss))

\* number of tokens equal to tok among the first n tokens of s
CountTok(s, tok, n) == Cardinality({i \in 1..n : s[i] = tok})

\* template % args : every "%s" token is replaced by the next argument
PercentFormat(template, args) ==
    Flatten([i \in DOMAIN template |->
                IF template[i] = "%s"
                THEN args[CountTok(template, "%s", i)]
                ELSE <<template[i]>>])

\* template.format(*args) : every "{}" token is replaced by the next
\* argument; any other token, "%s" included, is copied
StrFormat(template, args) ==
    Flatten([i \in DOMAIN template |->
                IF template[i] = "{}"
                THEN args[CountTok(template, "{}", i)]
                ELSE <<template[i]>>])

\* os.path.join(a, b)
Join(a, b) ==
    IF b # <<>> /\ b[1] = "/" THEN b
    ELSE IF a = <<>> THEN b
    ELSE IF Last(a) = "/" THEN a \o b
    ELSE a \o <<"/">> \o b

\* ---------------------------------------------------------- text inputs
\* diagram source texts (node['code']): plain text with a trailing
\* newline, text that HTML escaping changes, text outside iso-8859-1
Codes == { <<"a", "\n">>, <<"<", "&">>, <<"a", "U+2192">> }

\* the characters of Codes that iso-8859-1 can encode, with their byte
Latin1 == [c \in {"a", "\n", "<", "&"} |->
              CASE c = "a"  -> 97
                [] c = "\n" -> 10
                [] c = "<"  -> 60
                [] c = "&"  -> 38]

\* code.encode('iso-8859-1') succeeds
Encodable(code) == \A i \in DOMAIN code : code[i] \in DOMAIN Latin1

\* code.encode('iso-8859-1')
Encode(code) == [i \in DOMAIN code |-> Latin1[code[i]]]

\* self.encode(code) of the HTML translator
EscapeTok(c) ==
    CASE c = "&"  -> <<"&", "amp", ";">>
      [] c = "<"  -> <<"&", "lt", ";">>
      [] OTHER    -> <<c>>

Escape(code) == Flatten([i \in DOMAIN code |-> EscapeTok(code[i])])

Whitespace == {" ", "\n", "\t"}

\* str.strip()
RECURSIVE LStrip(_)
LStrip(s) == IF s # <<>> /\ Head(s) \in Whitespace THEN LStrip(Tail(s)) ELSE s

RECURSIVE RStrip(_)
RStrip(s) ==
    IF s # <<>> /\ Last(s) \in Whitespace
    THEN RStrip(SubSeq(s, 1, Len(s) - 1)) ELSE s

Strip(s) == RStrip(LStrip(s))

\* ------------------------------------------------------------ the module
SVG == "image/svg+xml"
PDF == "application/pdf"
PNG == "image/png"
GIF == "image/gif"
JPEG == "image/jpeg"

\* module-level try: import cairosvg (cairo = the import succeeded)
preferred_formats(cairo) ==
    IF cairo THEN <<SVG, PDF, PNG>> ELSE <<SVG, PNG>>

\* faulty variant: walks the supported list instead of the preference list
determine_format_mutant(supp, cairo) ==
    LET pf   == preferred_formats(cairo)
        hits == {i \in DOMAIN supp : supp[i] \in Range(pf)}
    IN  IF hits = {} THEN None
        ELSE supp[CHOOSE i \in hits : \A j \in hits : i <= j]

determine_format(supp, cairo) ==
    LET pf   == preferred_formats(cairo)
        hits == {i \in DOMAIN pf : pf[i] \in Range(supp)}
    IN  IF hits = {} THEN None
        ELSE pf[CHOOSE i \in hits : \A j \in hits : i <= j]

\* names bound in the module's namespace that a raise statement can use
DefinedNames == {"MscgenError", "SphinxError"}

\* raise <name>(...): an unbound name raises NameError instead
Raise(name) == IF name \in DefinedNames THEN name ELSE "NameError"

\* self.builder.outdir
OutDir == <<"/", "out">>

\* app.add_config_value('mscgen', 'mscgen', 'html')
config_mscgen == <<"mscgen">>

\* app.add_config_value('mscgen_args', [], 'html')
config_mscgen_args == <<>>

\* mscgen_args of render_msc_native
NativeArgs(flag) == config_mscgen \o config_mscgen_args \o <<"-T", flag, "-o", "-">>

\* the fmt argument render_msc passes to render_msc_native
\* faulty variant: always asks the renderer for svg
NativeFlag_mutant(fmt) == "svg"

NativeFlag(fmt) == IF fmt = PNG THEN "png" ELSE "svg"

\* what the renderer process can answer to communicate()
RendererResults ==
    { [rc |-> 0, out |-> <<1>>, err |-> <<>>],
      [rc |-> 0, out |-> <<2>>, err |-> <<>>],
      [rc |-> 1, out |-> <<>>,  err |-> <<"bad syntax">>] }

\* p = Popen(...) succeeded
Spawned(flag) ==
    [args |-> NativeArgs(flag), state |-> "running", stdin |-> <<>>,
     stdout |-> <<>>, stderr |-> <<>>, returncode |-> -1]

\* Popen(...) raised OSError: no process exists
NotStarted(flag) ==
    [args |-> NativeArgs(flag), state |-> "failed", stdin |-> <<>>,
     stdout |-> <<>>, stderr |-> <<>>, returncode |-> -1]

\* p.communicate(input) returned: the process has exited
\* faulty variant: returns without waiting for the process to exit
Communicated_mutant(p, input, r) ==
    [p EXCEPT !.stdin = input, !.stdout = r.out, !.stderr = r.err,
              !.returncode = r.rc]

Communicated(p, input, r) ==
    [p EXCEPT !.state = "exited", !.stdin = input, !.stdout = r.out,
              !.stderr = r.err, !.returncode = r.rc]

\* the message of the MscgenError raised by render_msc_native
ErrorMessage(code, err) ==
    StrFormat(<<"Cannot render the following mscgen code:\n", "%s",
                "\n\nError: ", "%s">>, <<code, err>>)

\* uuid4(): an identifier no earlier call returned
UUIDs == {ToString(n) : n \in 1..MaxVisits}

\* bname = '%s-%s' % ('mscgen', uuid4())
\* faulty variant: a fixed identifier instead of uuid4()
BaseName_mutant(u) == PercentFormat(<<"%s", "-", "%s">>, <<<<"mscgen">>, <<"0">>>>)

BaseName(u) == PercentFormat(<<"%s", "-", "%s">>, <<<<"mscgen">>, <<u>>>>)

\* fpath = os.path.join(outpath, '%s.%s' % (bname, ext))
FilePath(outpath, bname, ext) ==
    Join(outpath, PercentFormat(<<"%s", ".", "%s">>, <<bname, <<ext>>>>))

\* cairosvg.svg2pdf(svg, ...): the bytes of the PDF
svg2pdf(svg) == <<37, 80, 68, 70>> \o svg

\* with open(fpath, 'wb') as out: out.write(content)
\* faulty variant: the file is never written
WriteFile_mutant(d, fpath, content) == d

WriteFile(d, fpath, content) ==
    [x \in (DOMAIN d) \cup {fpath} |-> IF x = fpath THEN content ELSE d[x]]

\* render_msc after render_msc_native returned img: the exception it
\* raises ("" when it returns), and the extension and content it writes
render_msc(fmt, img, cairo) ==
    CASE fmt = PNG -> [raised |-> "", ext |-> "png", content |-> img]
      [] fmt = SVG -> [raised |-> "", ext |-> "svg", content |-> img]
      [] fmt = PDF ->
           IF cairo
           THEN [raised |-> "", ext |-> "pdf", content |-> svg2pdf(img)]
           ELSE [raised |-> "NameError", ext |-> "", content |-> <<>>]
      [] OTHER -> [raised |-> Raise("MscGenError"), ext |-> "", content |-> <<>>]

\* imgpath of render_msc_html
HtmlImgPath(ip) == IF ip # None THEN <<ip>> ELSE <<".">>

\* what render_msc_html appends to self.body
HtmlMarkup(ip, fn, ext, code) ==
    << <<"<p", " class=\"mscgen\"", ">">>,
       PercentFormat(<<"<img src=\"", "%s", ".", "%s", "\" alt=\"", "%s",
                       "\"/>\n">>,
                     <<Join(HtmlImgPath(ip), fn), <<ext>>, Strip(Escape(code))>>),
       <<"</p>\n">> >>

\* what render_msc_html_js appends to self.body
\* faulty variant: the source text is emitted without self.encode
ScriptMarkup_mutant(code) ==
    << <<"<script", " data-named-style=\"classic\"",
         " type=\"text/x-mscgen\"", ">">>,
       code,
       <<"</script>">> >>

ScriptMarkup(code) ==
    << <<"<script", " data-named-style=\"classic\"",
         " type=\"text/x-mscgen\"", ">">>,
       Escape(code),
       <<"</script>">> >>

\* what render_msc_latex appends to self.body
\* faulty variant: no inner brace group around the base name
LatexMarkup_mutant(fn, ext) ==
    << PercentFormat(<<"\n\\noindent\\sphinxincludegraphics", "{", "%s",
                       ".", "%s", "}", "\n">>, <<fn, <<ext>>>>) >>

LatexMarkup(fn, ext) ==
    << PercentFormat(<<"\n\\noindent\\sphinxincludegraphics", "{", "{",
                       "%s", "}", ".", "%s", "}", "\n">>, <<fn, <<ext>>>>) >>

\* --------------------------------------------------------------- state
\* supported_image_types of the builders a build can run with: the HTML
\* builder's list, the LaTeX builder's list, and builders whose list has
\* no preferred format
BuilderSupported ==
    { <<SVG, PNG, GIF, JPEG>>, <<PDF, PNG, JPEG>>, <<GIF>>, <<>> }

\* the local variables of a visit that is blocked in communicate()
NoFrame ==
    [handler |-> "", code |-> <<>>, outpath |-> <<>>, fmt |-> None,
     bname |-> <<>>, bodyFrom |-> 0, writesFrom |-> 0, procsFrom |-> 0]

\* the record of a finished visit: how it ended (SkipNode or the exception
\* that left the visitor) and the parts of body, writes and procs it added
Finished(f, mode, outcome, msg, fpath, nbody, nwrites, nprocs) ==
    [handler |-> f.handler, mode |-> mode, code |-> f.code, fmt |-> f.fmt,
     outcome |-> outcome, msg |-> msg, fpath |-> fpath,
     bodyFrom |-> f.bodyFrom, bodyTo |-> nbody,
     writesFrom |-> f.writesFrom, writesTo |-> nwrites,
     procsFrom |-> f.procsFrom, procsTo |-> nprocs]

ConfigInit ==
    /\ builder \in {"html", "latex"}
    /\ mscgen_js \in {None, "mscgen-inpage.js"}
    /\ imgpath \in (IF builder = "html" THEN {None, "_images"} ELSE {None})
    /\ cairosvg \in BOOLEAN
    /\ negotiated = "unset"

BuildInit ==
    /\ body = <<>>
    /\ disk = [x \in {} |-> <<>>]
    /\ writes = <<>>
    /\ dirs = {}
    /\ issued = {}
    /\ procs = <<>>
    /\ pc = "idle"
    /\ cur = NoFrame
    /\ visits = <<>>

Init ==
    /\ ConfigInit
    /\ supported \in BuilderSupported
    /\ BuildInit

config == <<builder, mscgen_js, imgpath, supported, cairosvg>>

\* ------------------------------------------------------------- actions
\* render_msc up to the Popen call of render_msc_native: ensuredir, the
\* fresh base name, then either OSError (re-raised) or a running process
render_msc_start(handler, code, outpath, fmt) ==
    \E u \in UUIDs \ issued :
        LET f == [handler |-> handler, code |-> code, outpath |-> outpath,
                  fmt |-> fmt, bname |-> BaseName(u),
                  bodyFrom |-> Len(body), writesFrom |-> Len(writes),
                  procsFrom |-> Len(procs)]
        IN  /\ dirs' = dirs \cup {outpath}
            /\ issued' = issued \cup {u}
            /\ negotiated' = fmt
            /\ \/ /\ procs' = Append(procs, NotStarted(NativeFlag(fmt)))
                  /\ visits' = Append(visits,
                        Finished(f, "image", "OSError", <<>>, <<>>,
                                 Len(body), Len(writes), Len(procs) + 1))
                  /\ pc' = "aborted"
                  /\ cur' = NoFrame
               \/ /\ procs' = Append(procs, Spawned(NativeFlag(fmt)))
                  /\ pc' = "communicate"
                  /\ cur' = f
                  /\ UNCHANGED visits
            /\ UNCHANGED <<body, disk, writes>>

\* render_msc_html_js: no renderer, the escaped source in a script tag
render_msc_html_js(code) ==
    LET f == [NoFrame EXCEPT !.handler = "html", !.code = code,
                             !.bodyFrom = Len(body),
                             !.writesFrom = Len(writes),
                             !.procsFrom = Len(procs)]
    IN  /\ body' = body \o ScriptMarkup(code)
        /\ visits' = Append(visits,
              Finished(f, "script", "SkipNode", <<>>, <<>>,
                       Len(body'), Len(writes), Len(procs)))
        /\ UNCHANGED <<disk, writes, dirs, issued, procs, pc, cur, negotiated>>

html_visit_mscgen(code) ==
    /\ pc = "idle"
    /\ builder = "html"
    /\ Len(visits) < MaxVisits
    /\ IF mscgen_js # None
       THEN render_msc_html_js(code)
       ELSE render_msc_start("html", code, Join(OutDir, HtmlImgPath(imgpath)),
                             determine_format(supported, cairosvg))
    /\ UNCHANGED config

latex_visit_mscgen(code) ==
    /\ pc = "idle"
    /\ builder = "latex"
    /\ Len(visits) < MaxVisits
    /\ render_msc_start("latex", code, OutDir,
                        determine_format(supported, cairosvg))
    /\ UNCHANGED config

\* code.encode('iso-8859-1') raises: communicate() is never called and
\* the process that Popen started is left running
communicate_encode_error ==
    /\ pc = "communicate"
    /\ ~Encodable(cur.code)
    /\ visits' = Append(visits,
          Finished(cur, "image", "UnicodeEncodeError", <<>>, <<>>,
                   Len(body), Len(writes), Len(procs)))
    /\ pc' = "aborted"
    /\ cur' = NoFrame
    /\ UNCHANGED <<config, negotiated, body, disk, writes, dirs, issued, procs>>

\* communicate() returns with a non-zero returncode: MscgenError
communicate_failure ==
    /\ pc = "communicate"
    /\ Encodable(cur.code)
    /\ \E r \in RendererResults :
          /\ r.rc # 0
          /\ procs' = [procs EXCEPT ![Len(procs)] =
                          Communicated(@, Encode(cur.code), r)]
          /\ visits' = Append(visits,
                Finished(cur, "image", Raise("MscgenError"),
                         ErrorMessage(cur.code, r.err), <<>>,
                         Len(body), Len(writes), Len(procs)))
    /\ pc' = "aborted"
    /\ cur' = NoFrame
    /\ UNCHANGED <<config, negotiated, body, disk, writes, dirs, issued>>

\* communicate() returns with returncode 0: the rest of render_msc, then
\* the markup of render_msc_html or render_msc_latex and SkipNode
communicate_success ==
    /\ pc = "communicate"
    /\ Encodable(cur.code)
    /\ \E r \in RendererResults :
          /\ r.rc = 0
          /\ procs' = [procs EXCEPT ![Len(procs)] =
                          Communicated(@, Encode(cur.code), r)]
          /\ LET res   == render_msc(cur.fmt, r.out, cairosvg)
                 fpath == FilePath(cur.outpath, cur.bname, res.ext)
             IN  IF res.raised # ""
                 THEN /\ visits' = Append(visits,
                            Finished(cur, "image", res.raised, <<>>, <<>>,
                                     Len(body), Len(writes), Len(procs)))
                      /\ pc' = "aborted"
                      /\ UNCHANGED <<body, disk, writes>>
                 ELSE /\ disk' = WriteFile(disk, fpath, res.content)
                      /\ writes' = Append(writes,
                            [path |-> fpath, content |-> res.content])
                      /\ body' = body \o
                            (IF cur.handler = "html"
                             THEN HtmlMarkup(imgpath, cur.bname, res.ext, cur.code)
                             ELSE LatexMarkup(cur.bname, res.ext))
                      /\ visits' = Append(visits,
                            Finished(cur, "image", "SkipNode", <<>>, fpath,
                                     Len(body'), Len(writes'), Len(procs)))
                      /\ pc' = "idle"
    /\ cur' = NoFrame
    /\ UNCHANGED <<config, negotiated, dirs, issued>>

Next ==
    \/ \E code \in Codes : html_visit_mscgen(code)
    \/ \E code \in Codes : latex_visit_mscgen(code)
    \/ communicate_encode_error
    \/ communicate_failure
    \/ communicate_success

Spec == Init /\ [][Next]_vars

\* ------------------------------------------ format negotiation on its own
Formats == {SVG, PDF, PNG, GIF}

SupportedLists == UNION {[1..n -> Formats] : n \in 0..MaxSupported}

FmtInit ==
    /\ builder = "html"
    /\ mscgen_js = None
    /\ imgpath = None
    /\ cairosvg \in BOOLEAN
    /\ negotiated = "unset"
    /\ supported \in SupportedLists
    /\ BuildInit

negotiate ==
    /\ negotiated = "unset"
    /\ negotiated' = determine_format(supported, cairosvg)
    /\ UNCHANGED <<config, body, disk, writes, dirs, issued, procs, pc, cur,
                   visits>>

FmtNext == negotiate

SpecFmt == FmtInit /\ [][FmtNext]_vars

\* ------------------------------------------------ reading the output back
\* index of the first token tok of s
IndexOf(s, tok) ==
    CHOOSE i \in DOMAIN s : s[i] = tok /\ \A j \in 1..(i - 1) : s[j] # tok

\* os.path.basename(p), os.path.dirname(p)
LastSlash(p) ==
    CHOOSE i \in DOMAIN p : p[i] = "/" /\ \A j \in (i + 1)..Len(p) : p[j] # "/"

Basename(p) == SubSeq(p, LastSlash(p) + 1, Len(p))

Dirname(p) == SubSeq(p, 1, LastSlash(p) - 1)

IsImg(e) == e # <<>> /\ e[1] = "<img src=\""

\* the value of the src attribute of an img tag
ImgSrc(e) == SubSeq(e, 2, IndexOf(e, "\" alt=\"") - 1)

IsGraphics(e) == e # <<>> /\ e[1] = "\n\\noindent\\sphinxincludegraphics"

\* brace depth after the first n tokens
Depth(e, n) == CountTok(e, "{", n) - CountTok(e, "}", n)

ArgOpen(e) == IndexOf(e, "{")

ArgClose(e) ==
    CHOOSE j \in DOMAIN e :
        /\ j > ArgOpen(e)
        /\ Depth(e, j) = 0
        /\ \A k \in ArgOpen(e)..(j - 1) : Depth(e, k) > 0

\* what stands between the braces of the command's argument, and after
CommandArg(e) == SubSeq(e, ArgOpen(e) + 1, ArgClose(e) - 1)

AfterArg(e) == SubSeq(e, ArgClose(e) + 1, Len(e))

IsBrace(t) == t \in {"{", "}"}

\* the file name LaTeX reads from an argument: grouping braces dropped
Ungroup(s) == SelectSeq(s, LAMBDA t : ~IsBrace(t))

HasRef(e) == IsImg(e) \/ IsGraphics(e)

\* the file a body entry refers to, resolved against the output directory
RefTarget(e) ==
    Join(OutDir, IF IsImg(e) THEN ImgSrc(e) ELSE Ungroup(CommandArg(e)))

ImageVisits == {i \in DOMAIN visits : visits[i].mode = "image"}

Rendered == {i \in ImageVisits : visits[i].outcome = "SkipNode"}

\* the visit made a Popen call, and its process record
Invoked(v) == v.procsTo > v.procsFrom

ProcOf(v) == procs[v.procsTo]

ExitedWith(v, rcs) ==
    Invoked(v) /\ ProcOf(v).state = "exited" /\ ProcOf(v).returncode \in rcs

Appended(v) == {body[k] : k \in (v.bodyFrom + 1)..v.bodyTo}

\* ---------------------------------------------------------------- claims

\* C1: every renderer invocation that ends with a non-zero exit status
\* fails the visit with an MscgenError whose message contains both the
\* diagram source text and the renderer's standard-error output.
C1_NonZeroExitMessage ==
    \A i \in ImageVisits :
        LET v == visits[i]
        IN  ExitedWith(v, {1}) =>
              /\ v.outcome = "MscgenError"
              /\ Contains(v.msg, v.code)
              /\ Contains(v.msg, ProcOf(v).stderr)

\* C2 as stated: with mscgen_js set no renderer process is invoked for any
\* visited node, by either handler, and the markup of every visited node
\* contains the escaped source text.
C2_NoRendererAnyHandler ==
    mscgen_js # None =>
        /\ procs = <<>>
        /\ \A i \in DOMAIN visits : Escape(visits[i].code) \in Appended(visits[i])

\* C2 amended: with mscgen_js set, no renderer process is invoked for a node
\* visited by html_visit_mscgen and its markup contains the escaped source
\* text; latex_visit_mscgen does not consult mscgen_js and renders an image.
C2_NoRendererHtml ==
    mscgen_js # None =>
        /\ builder = "html" =>
              /\ procs = <<>>
              /\ pc = "idle"
              /\ \A i \in DOMAIN visits :
                    /\ visits[i].mode = "script"
                    /\ visits[i].outcome = "SkipNode"
                    /\ Escape(visits[i].code) \in Appended(visits[i])
        /\ builder = "latex" => \A i \in DOMAIN visits : visits[i].mode = "image"

C2_Witness ==
    /\ mscgen_js # None
    /\ builder = "html"
    /\ \E i \in DOMAIN visits :
          visits[i].code = <<"<", "&">> /\ visits[i].outcome = "SkipNode"

\* C3: when the supported list shares no entry with the preference list,
\* determine_format returns None and the visit fails with MscgenError,
\* writes no image file and emits no markup (stated for the visits whose
\* renderer process ran and exited with status 0).
C3_NoFormatIsMscgenError ==
    \A i \in ImageVisits :
        LET v == visits[i]
        IN  ( /\ Range(supported) \cap Range(preferred_formats(cairosvg)) = {}
              /\ ExitedWith(v, {0}) ) =>
              /\ v.fmt = None
              /\ v.outcome = "MscgenError"
              /\ v.writesTo = v.writesFrom
              /\ v.bodyTo = v.bodyFrom

\* the preference order as C4 states it
ClaimedOrder == <<SVG>> \o (IF cairosvg THEN <<PDF>> ELSE <<>>) \o <<PNG>>

\* C4: determine_format returns the first entry of the preference order
\* (vector, page-description only with cairosvg, bitmap) that is in the
\* supported list: vector whenever the list contains it, whatever the
\* order; bitmap for a list of bitmap only; never page-description
\* without the converter.
C4_FirstPreferredWins ==
    negotiated # "unset" =>
        /\ \A i \in DOMAIN ClaimedOrder :
              ( /\ ClaimedOrder[i] \in Range(supported)
                /\ \A j \in 1..(i - 1) : ClaimedOrder[j] \notin Range(supported) )
              => negotiated = ClaimedOrder[i]
        /\ SVG \in Range(supported) => negotiated = SVG
        /\ Range(supported) = {PNG} => negotiated = PNG
        /\ ~cairosvg => negotiated # PDF

C4_Witness ==
    /\ negotiated = SVG
    /\ Len(supported) = 3
    /\ supported[1] = PNG
    /\ supported[3] = SVG

\* C5: in image-embedding mode every finished visit either wrote a complete
\* image file, appended markup that refers to that file and ended with
\* SkipNode, or raised an error, wrote no file and appended no markup; and
\* the body never refers to an image file that is not on disk.
C5_AllOrNothing ==
    /\ \A i \in ImageVisits :
          LET v == visits[i]
          IN  \/ /\ v.outcome = "SkipNode"
                 /\ v.writesTo = v.writesFrom + 1
                 /\ writes[v.writesTo].path = v.fpath
                 /\ v.fpath \in DOMAIN disk
                 /\ disk[v.fpath] = writes[v.writesTo].content
                 /\ \E e \in Appended(v) : HasRef(e) /\ RefTarget(e) = v.fpath
              \/ /\ v.outcome # "SkipNode"
                 /\ v.writesTo = v.writesFrom
                 /\ v.bodyTo = v.bodyFrom
    /\ \A k \in DOMAIN body : HasRef(body[k]) => RefTarget(body[k]) \in DOMAIN disk

C5_Witness ==
    /\ Len(visits) = 2
    /\ visits[1].mode = "image" /\ visits[1].outcome = "SkipNode"
    /\ visits[2].mode = "image" /\ visits[2].outcome = "MscgenError"

\* C6: when the renderer executable cannot be started, the visit fails
\* with MscgenError, as for a non-zero exit status, and the error carries
\* the diagram source.
C6_NotStartedIsMscgenError ==
    \A i \in ImageVisits :
        LET v == visits[i]
        IN  (Invoked(v) /\ ProcOf(v).state = "failed") =>
              /\ v.outcome = "MscgenError"
              /\ Contains(v.msg, v.code)

\* the img src of an HTML visit is the image path prefix joined with the
\* name of the written file
HtmlSrcRelative(v) ==
    \E e \in Appended(v) :
        /\ IsImg(e)
        /\ ImgSrc(e) = Join(HtmlImgPath(imgpath), Basename(v.fpath))
        /\ Dirname(v.fpath) = Join(OutDir, HtmlImgPath(imgpath))

\* C7 as stated: the LaTeX command's argument is the absolute path of the
\* written file without its extension, and the extension follows the
\* argument as a literal suffix; the HTML img src is relative to the image
\* path prefix.
C7_LatexAbsolutePath ==
    \A i \in Rendered :
        LET v == visits[i]
        IN  /\ v.handler = "latex" =>
                  \E e \in Appended(v) :
                      /\ IsGraphics(e)
                      /\ CommandArg(e) = SubSeq(v.fpath, 1, Len(v.fpath) - 2)
                      /\ SubSeq(AfterArg(e), 1, 2) = <<".", Last(v.fpath)>>
            /\ v.handler = "html" => HtmlSrcRelative(v)

\* C7 amended: the LaTeX command refers to the written file, which is in
\* the output directory, by its base name alone: the argument is the base
\* name in an inner brace group followed by "." and the extension, and
\* nothing but the newline follows the argument; the HTML img src is
\* relative to the image path prefix.
C7_LatexBaseName ==
    \A i \in Rendered :
        LET v    == visits[i]
            name == Basename(v.fpath)
        IN  /\ v.handler = "latex" =>
                  /\ Dirname(v.fpath) = OutDir
                  /\ \E e \in Appended(v) :
                        /\ IsGraphics(e)
                        /\ CommandArg(e) =
                             <<"{">> \o SubSeq(name, 1, Len(name) - 2)
                                    \o <<"}", ".", Last(name)>>
                        /\ AfterArg(e) = <<"\n">>
            /\ v.handler = "html" => HtmlSrcRelative(v)

C7_Witness ==
    /\ builder = "latex"
    /\ \E i \in Rendered : Last(visits[i].fpath) = "pdf"

\* C8: every successful render_msc call writes mscgen-<fresh id>.<ext>, a
\* file name no earlier call wrote, so the files on disk are as many as
\* the successful renders and no written file is rewritten or deleted.
C8_DistinctFiles ==
    /\ \A i, j \in DOMAIN writes : i # j => writes[i].path # writes[j].path
    /\ \A i \in DOMAIN writes :
          /\ writes[i].path \in DOMAIN disk
          /\ disk[writes[i].path] = writes[i].content
          /\ \E u \in issued, ext \in {"png", "svg", "pdf"} :
                Basename(writes[i].path) = <<"mscgen", "-", u, ".", ext>>
    /\ Cardinality(DOMAIN disk) = Cardinality(Rendered)
    /\ Len(writes) = Cardinality(Rendered)

C8_Witness ==
    /\ Len(writes) = 2
    /\ Cardinality(Rendered) = 2

\* C9: when the negotiated format is bitmap or vector and the renderer
\* exits with status 0, the written file holds exactly the bytes of the
\* renderer's standard output and the renderer was run with -T png for
\* bitmap and -T svg for vector.
C9_FileIsStdout ==
    \A i \in ImageVisits :
        LET v == visits[i]
        IN  (v.fmt \in {PNG, SVG} /\ ExitedWith(v, {0})) =>
              /\ v.outcome = "SkipNode"
              /\ v.fpath \in DOMAIN disk
              /\ disk[v.fpath] = ProcOf(v).stdout
              /\ Contains(ProcOf(v).args,
                          <<"-T", IF v.fmt = PNG THEN "png" ELSE "svg">>)
              /\ Last(v.fpath) = (IF v.fmt = PNG THEN "png" ELSE "svg")

C9_Witness ==
    \E i \in Rendered : visits[i].fmt = PNG /\ ProcOf(visits[i]).stdout = <<2>>

\* C10: in image-embedding mode every visit makes exactly one Popen call,
\* whether it succeeds or fails, and the process of one visit is no longer
\* running when the next is spawned: at most one renderer process runs.
C10_OneRendererAtATime ==
    /\ \A i \in ImageVisits : visits[i].procsTo = visits[i].procsFrom + 1
    /\ pc = "communicate" => Len(procs) = cur.procsFrom + 1
    /\ \A k \in 1..(Len(procs) - 1) : procs[k].state # "running"
    /\ Cardinality({k \in DOMAIN procs : procs[k].state = "running"}) <= 1
    /\ pc = "idle" => \A k \in DOMAIN procs : procs[k].state # "running"

C10_Witness ==
    /\ Len(procs) = 2
    /\ procs[1].state = "exited"
    /\ procs[2].state = "running"

====
